---------------------------- MODULE Spec2Model ----------------------------
(***************************************************************************)
(* Model of the two scripts of "Maintaining viability with multiple needs" *)
(* (McShaffrey & Beer, 2022):                                              *)
(*   src/2D_adaptive_region.py  N, F, survival, helper, adapt_matrix       *)
(*   src/FixedCondSurvival.py   AB_survival, helper, AB_assess, env_combs  *)
(*                                                                         *)
(* Floating-point numbers are modelled as records: a finite value is a     *)
(* whole number of ticks (Unit ticks make 1.0, so 0.1 and every grid step  *)
(* of the resolutions used here are whole ticks), and NaN, +inf and -inf   *)
(* are values of their own with the IEEE-754 comparison and addition       *)
(* rules Python applies.  scipy's odeint is outside the repository: its    *)
(* result is an unknown trajectory whose first row is the initial          *)
(* condition.  Labels (0.0, 1.0, -1.0, 1000.0) are the integers of the     *)
(* same value.                                                             *)
(***************************************************************************)
EXTENDS Integers, Sequences, FiniteSets, TLC

VARIABLES
    \* ---- one call of survival(a, b) (2D_adaptive_region.py) ----
    sv_pc,          \* "call" | "classify" | "done"
    argA, argB,     \* the arguments a, b
    x,              \* the trajectory odeint returned: rows <<L, A, B, X>>
    dead,           \* the local 'dead'
    \* ---- calls of N(L,S,C) and F(L,S,C) ----
    argL, argS, argC,
    retN, retF,     \* the returned values
    called,         \* which of "N", "F" have returned
    \* ---- one run of a sweep: adapt_matrix(resolution) or env_combs(resolution) ----
    script,         \* "2D_adaptive_region" | "FixedCondSurvival" | "none"
    name,           \* the module's __name__
    resolution,
    odeKind,        \* which solution map the integrator realises in this run
    numWorkers,     \* multip.cpu_count()
    pc,
    conds,          \* the list of job tuples
    taken,          \* how many jobs of conds the pool's workers have taken
    running,        \* indices of the jobs a worker is evaluating
    outputs,        \* the results of pool.map by job index, those computed so far
    pos,            \* index of the next element of 'for i in outputs'
    adpt_matrix,
    writeLog,       \* history: the <<row, col>> of every write to adpt_matrix
    pools, maps,    \* history: multip.Pool(...) and pool.map(...) calls so far
    overtaken,      \* history: some job finished before a job taken earlier
    ret,            \* the value returned, Pending before
    mapping, el_n, el_f,   \* env_combs
    survivability   \* AB_assess

svVars  == <<sv_pc, argA, argB, x, dead>>
supVars == <<argL, argS, argC, retN, retF, called>>
swVars  == <<script, name, resolution, odeKind, numWorkers, pc, conds, taken,
             running, outputs, pos, adpt_matrix, writeLog, pools, maps, overtaken,
             ret, mapping, el_n, el_f, survivability>>
vars    == <<svVars, supVars, swVars>>

-----------------------------------------------------------------------------
(* Bounds of the model *)

\* rows of a trajectory in the single-run specification (the code asks for 2000)
MaxT == 2
\* magnitude of L, S, C in the supply-function specification
MaxMag == 3
\* largest resolution of adapt_matrix (the script calls adapt_matrix(1000))
MaxRes == 3
\* largest resolution of env_combs (the script calls env_combs(100))
MaxEnvRes == 2
\* side of the (A0, B0) sub-grid of AB_assess (the code's 50)
SubRes == 3
\* largest multip.cpu_count()
MaxWorkers == 2

-----------------------------------------------------------------------------
(* Floating point *)

\* ticks per 1.0
Unit == 2 * 3 * 5

Fl(n) == [k |-> "fin", v |-> n]
NaN   == [k |-> "nan", v |-> 0]
PInf  == [k |-> "inf", v |-> 1]
NInf  == [k |-> "inf", v |-> -1]

\* p > q
FGt(p, q) ==
    IF p.k = "nan" \/ q.k = "nan" THEN FALSE
    ELSE IF p.k = "inf" THEN p.v = 1 /\ ~(q.k = "inf" /\ q.v = 1)
    ELSE IF q.k = "inf" THEN q.v = -1
    ELSE p.v > q.v

\* p <= q
FLe(p, q) ==
    IF p.k = "nan" \/ q.k = "nan" THEN FALSE
    ELSE ~FGt(p, q)

\* p + q
FAdd(p, q) ==
    IF p.k = "nan" \/ q.k = "nan" THEN NaN
    ELSE IF p.k = "inf" /\ q.k = "inf" THEN (IF p.v = q.v THEN p ELSE NaN)
    ELSE IF p.k = "inf" THEN p
    ELSE IF q.k = "inf" THEN q
    ELSE Fl(p.v + q.v)

\* the literals 0.1 and 20 of the viability conditions, and 0.5, -10.0
Tenth  == Fl(Unit \div 10)
Twenty == Fl(20 * Unit)
Half   == Fl(Unit \div 2)
init_L == Fl((-10) * Unit)
init_X == Half

\* 'dead = 1000.0': the value no branch of the classification assigns
Unset == 1000

-----------------------------------------------------------------------------
(* survival(a, b): classification of a trajectory *)

\* all(v > 0.1 for v in col)
AllAbove(col) == \A t \in DOMAIN col : FGt(col[t], Tenth)
\* all(c <= 20 for c in col)
AllWithin(col) == \A t \in DOMAIN col : FLe(col[t], Twenty)

ColA(xx) == [t \in DOMAIN xx |-> xx[t][2]]
ColB(xx) == [t \in DOMAIN xx |-> xx[t][3]]
ColC(xx) == [t \in DOMAIN xx |-> FAdd(xx[t][2], xx[t][3])]

\* faulty variant: 'c < 20' in place of 'c <= 20'
Classify_strict(xx) ==
    LET A == ColA(xx)
        B == ColB(xx)
        CC == ColC(xx)
        within == \A t \in DOMAIN CC : CC[t].k # "nan" /\ ~FGt(CC[t], Twenty) /\ CC[t] # Twenty
    IN  IF AllAbove(A) /\ AllAbove(B) /\ within THEN 0
        ELSE IF ~within THEN 1
        ELSE IF ~(AllAbove(A) /\ AllAbove(B)) THEN -1
        ELSE Unset

\* faulty variant: the starvation test made before the crisis test
Classify_starveFirst(xx) ==
    LET A == ColA(xx)
        B == ColB(xx)
        CC == ColC(xx)
    IN  IF AllAbove(A) /\ AllAbove(B) /\ AllWithin(CC) THEN 0
        ELSE IF ~(AllAbove(A) /\ AllAbove(B)) THEN -1
        ELSE IF ~AllWithin(CC) THEN 1
        ELSE Unset

\* faulty variant: 'v >= 0.1' in place of 'v > 0.1'
Classify_atLeast(xx) ==
    LET A == ColA(xx)
        B == ColB(xx)
        CC == ColC(xx)
        above(col) == \A t \in DOMAIN col : col[t].k # "nan" /\ ~FGt(Tenth, col[t])
    IN  IF above(A) /\ above(B) /\ AllWithin(CC) THEN 0
        ELSE IF ~AllWithin(CC) THEN 1
        ELSE IF ~(above(A) /\ above(B)) THEN -1
        ELSE Unset

\* faulty variant: crisis decided by 'any(c > 20 for c in C)'
Classify_anyAbove(xx) ==
    LET A == ColA(xx)
        B == ColB(xx)
        CC == ColC(xx)
    IN  IF AllAbove(A) /\ AllAbove(B) /\ AllWithin(CC) THEN 0
        ELSE IF \E t \in DOMAIN CC : FGt(CC[t], Twenty) THEN 1
        ELSE IF ~(AllAbove(A) /\ AllAbove(B)) THEN -1
        ELSE Unset

\* lines 127-143: the columns, C = A + B, and the nested conditionals
Classify(xx) ==
    LET A == ColA(xx)
        B == ColB(xx)
        CC == ColC(xx)
    IN  IF AllAbove(A) /\ AllAbove(B) /\ AllWithin(CC) THEN 0
        ELSE IF ~AllWithin(CC) THEN 1
        ELSE IF ~(AllAbove(A) /\ AllAbove(B)) THEN -1
        ELSE Unset

\* values a sampled concentration takes in the single-run specification:
\* 0, 0.1, the next value above 0.1, the two values that reach exactly 20 with
\* those, and the non-finite values
ArgVals  == {Fl(0), Fl(Unit \div 10), Fl(Unit \div 10 + 1),
             Fl(20 * Unit - Unit \div 10 - 1), Fl(20 * Unit - Unit \div 10)}
TailVals == ArgVals \cup {NaN, PInf, NInf}

\* the rows after the first one, at most n of them
RECURSIVE Tails(_)
Tails(n) ==
    IF n = 0 THEN {<<>>}
    ELSE LET shorter == Tails(n - 1)
         IN  shorter \cup
             {Append(s, <<init_L, va, vb, init_X>>) :
                 s \in {u \in shorter : Len(u) = n - 1}, va \in TailVals, vb \in TailVals}

\* line 120: x0 = [init_L, a, b, init_X]
X0(a, b) == <<init_L, a, b, init_X>>

\* line 125: x = odeint(ode_func, x0, t): any trajectory that starts at x0
SurvivalIntegrate ==
    /\ sv_pc = "call"
    /\ \E tail \in Tails(MaxT - 1) : x' = <<X0(argA, argB)>> \o tail
    /\ sv_pc' = "classify"
    /\ UNCHANGED <<argA, argB, dead, supVars, swVars>>

\* lines 127-143
SurvivalClassify ==
    /\ sv_pc = "classify"
    /\ dead' = Classify(x)
    /\ sv_pc' = "done"
    /\ UNCHANGED <<argA, argB, x, supVars, swVars>>

-----------------------------------------------------------------------------
(* N(L, S, C) and F(L, S, C) *)

\* faulty variant: the clamp of N dropped
N_unclamped(L, S, C) == S * L + C

N(L, S, C) == IF S * L + C < 0 THEN 0 ELSE S * L + C

F(L, S, C) == IF (-S) * L + C < 0 THEN 0 ELSE (-S) * L + C

CallN ==
    /\ "N" \notin called
    /\ retN' = N(argL, argS, argC)
    /\ called' = called \cup {"N"}
    /\ UNCHANGED <<argL, argS, argC, retF, svVars, swVars>>

CallF ==
    /\ "F" \notin called
    /\ retF' = F(argL, argS, argC)
    /\ called' = called \cup {"F"}
    /\ UNCHANGED <<argL, argS, argC, retN, svVars, swVars>>

-----------------------------------------------------------------------------
(* Values of the variables a specification does not use *)

Pending  == [t |-> "pending"]
None     == [t |-> "None"]
Array(m) == [t |-> "array", v |-> m]

IdleSurvival ==
    /\ sv_pc = "idle" /\ argA = Fl(0) /\ argB = Fl(0) /\ x = <<>> /\ dead = Unset

IdleSupply ==
    /\ argL = 0 /\ argS = 0 /\ argC = 0 /\ retN = 0 /\ retF = 0 /\ called = {}

IdleSweep ==
    /\ script = "none" /\ name = "none" /\ resolution = 0 /\ odeKind = "none"
    /\ numWorkers = 0 /\ pc = "idle" /\ conds = <<>> /\ taken = 0 /\ running = {}
    /\ outputs = <<>> /\ pos = 0 /\ adpt_matrix = <<>> /\ writeLog = <<>>
    /\ pools = 0 /\ maps = 0 /\ overtaken = FALSE /\ ret = Pending /\ mapping = <<>>
    /\ el_n = 0 /\ el_f = 0 /\ survivability = <<0, 1>>

-----------------------------------------------------------------------------
(* Grids *)

\* np.linspace(lo, hi, n), indexed from 0 as enumerate does
Linspace(lo, hi, n) ==
    [i \in 0..(n - 1) |->
        IF n = 1 THEN Fl(lo * Unit)
        ELSE Fl(lo * Unit + (i * (hi - lo) * Unit) \div (n - 1))]

\* np.flip(arr)
Flip(arr, n) == [i \in 0..(n - 1) |-> arr[n - 1 - i]]

\* np.zeros([n, n]), a cell being <<row, col>>
Zeros(n, zero) == [cell \in (0..(n - 1)) \X (0..(n - 1)) |-> zero]

-----------------------------------------------------------------------------
(* The integrator as the sweeps see it: a fixed solution map, chosen per run *)

Row4(va, vb) == <<init_L, va, vb, init_X>>

Kinds4 == {"hold", "decay", "grow", "nan0"}

\* x = odeint(ode_func, x0, t) of 2D_adaptive_region.py under solution map kind:
\*   hold   the state stays where it starts
\*   decay  both metabolites run out
\*   grow   B doubles while A stays
\*   nan0   as hold, but 0/0 in dXdt (A + B = 0, line 83) turns the state into NaN
odeint(kind, x0) ==
    LET va == x0[2]
        vb == x0[3]
    IN  CASE kind = "hold"  -> <<x0, x0>>
          [] kind = "decay" -> <<x0, Row4(Fl(0), Fl(0))>>
          [] kind = "grow"  -> <<x0, Row4(va, FAdd(vb, vb))>>
          [] kind = "nan0"  -> IF FAdd(va, vb) = Fl(0)
                               THEN <<x0, Row4(NaN, NaN)>>
                               ELSE <<x0, x0>>

\* survival(a, b) in a sweep
survival(a, b) == Classify(odeint(odeKind, X0(a, b)))

\* lines 152-155
helper(z) == [status |-> survival(z[1], z[2]), posit_A |-> z[3], posit_B |-> z[4]]

Kinds2 == {"hold", "decay", "grow", "nan0", "fed", "needsN"}

\* x = odeint(ode_func, x0, t, args=(N,F)) of FixedCondSurvival.py (rows <<A, B>>):
\*   fed     the state holds when both N and F are supplied and decays otherwise
\*   needsN  the state holds when N is supplied and decays otherwise
odeint2(kind, x0, Nc, Fc) ==
    LET va == x0[1]
        vb == x0[2]
        zero == <<Fl(0), Fl(0)>>
    IN  CASE kind = "hold"   -> <<x0, x0>>
          [] kind = "decay"  -> <<x0, zero>>
          [] kind = "grow"   -> <<x0, <<va, FAdd(vb, vb)>> >>
          [] kind = "nan0"   -> IF FAdd(va, vb) = Fl(0) THEN <<x0, <<NaN, NaN>> >> ELSE <<x0, x0>>
          [] kind = "fed"    -> IF FGt(Nc, Fl(0)) /\ FGt(Fc, Fl(0)) THEN <<x0, x0>> ELSE <<x0, zero>>
          [] kind = "needsN" -> IF FGt(Nc, Fl(0)) THEN <<x0, x0>> ELSE <<x0, zero>>

\* lines 56-75 of FixedCondSurvival.py
AB_survival(Nc, Fc, a, b) ==
    LET xx == odeint2(odeKind, <<a, b>>, Nc, Fc)
        A == [t \in DOMAIN xx |-> xx[t][1]]
        B == [t \in DOMAIN xx |-> xx[t][2]]
        CC == [t \in DOMAIN xx |-> FAdd(xx[t][1], xx[t][2])]
    IN  IF AllAbove(A) /\ AllAbove(B) /\ AllWithin(CC) THEN 1 ELSE 0

\* lines 84-87 of FixedCondSurvival.py: the bare score, no coordinate
AB_helper(z) == [survival |-> AB_survival(z[1], z[2], z[3], z[4])]

-----------------------------------------------------------------------------
(* The process pool *)

\* faulty variant: an existing pool is reused
NewPool_reuse(n) == IF n = 0 THEN 1 ELSE n

\* pool = multip.Pool(num_workers): one more pool created
NewPool(n) == n + 1

\* a worker of the pool is free to take the next job
WorkerIdle == Cardinality(running) < numWorkers

\* pool.map has every result
MapDone == taken = Len(conds) /\ running = {}

-----------------------------------------------------------------------------
(* adapt_matrix(resolution) *)

Is2D == script = "2D_adaptive_region"

\* faulty variant: the inner index stored for both coordinates
AdaptConds_sameTag(n) ==
    LET init_A == Linspace(0, 20, n)
        init_B == Flip(Linspace(0, 20, n), n)
    IN  [j \in 1..(n * n) |->
            LET pos_a == (j - 1) \div n
                pos_b == (j - 1) % n
            IN  <<init_A[pos_a], init_B[pos_b], pos_b, pos_b>>]

\* lines 165-176: conds in the order the nested loops append
AdaptConds(n) ==
    LET init_A == Linspace(0, 20, n)
        init_B == Flip(Linspace(0, 20, n), n)
    IN  [j \in 1..(n * n) |->
            LET pos_a == (j - 1) \div n
                pos_b == (j - 1) % n
            IN  <<init_A[pos_a], init_B[pos_b], pos_a, pos_b>>]

\* faulty variant: row and column exchanged
ScatterCell_swapped(i) == <<i.posit_A, i.posit_B>>

\* lines 188-190: adpt_matrix[position_b, position_a]
ScatterCell(i) == <<i.posit_B, i.posit_A>>

\* faulty variant: 'return' inside the for loop
ScatterDone_early == pos > 1

\* the for loop over outputs is exhausted
ScatterDone == pos > Cardinality(DOMAIN outputs)

AdaptBuild ==
    /\ Is2D /\ pc = "start"
    /\ conds' = AdaptConds(resolution)
    /\ adpt_matrix' = Zeros(resolution, 0)
    /\ pc' = "guard"
    /\ UNCHANGED <<overtaken, script, name, resolution, odeKind, numWorkers, taken, running,
                   outputs, pos, writeLog, pools, maps, ret, mapping, el_n, el_f,
                   survivability, svVars, supVars>>

\* line 179 false: the function falls off its end
AdaptSkip ==
    /\ Is2D /\ pc = "guard" /\ name # "__main__"
    /\ ret' = None
    /\ pc' = "returned"
    /\ UNCHANGED <<overtaken, script, name, resolution, odeKind, numWorkers, conds, taken, running,
                   outputs, pos, adpt_matrix, writeLog, pools, maps, mapping, el_n, el_f,
                   survivability, svVars, supVars>>

\* lines 179-181
AdaptPool ==
    /\ Is2D /\ pc = "guard" /\ name = "__main__"
    /\ pools' = NewPool(pools)
    /\ pc' = "pool"
    /\ UNCHANGED <<overtaken, script, name, resolution, odeKind, numWorkers, conds, taken, running,
                   outputs, pos, adpt_matrix, writeLog, maps, ret, mapping, el_n, el_f,
                   survivability, svVars, supVars>>

\* line 183: pool.map hands conds to the pool
AdaptMap ==
    /\ Is2D /\ pc = "pool"
    /\ maps' = maps + 1
    /\ taken' = 0
    /\ running' = {}
    /\ outputs' = <<>>
    /\ pc' = "map"
    /\ UNCHANGED <<overtaken, script, name, resolution, odeKind, numWorkers, conds, pos,
                   adpt_matrix, writeLog, pools, ret, mapping, el_n, el_f,
                   survivability, svVars, supVars>>

\* a free worker takes the next job
AdaptTake ==
    /\ Is2D /\ pc = "map"
    /\ taken < Len(conds)
    /\ WorkerIdle
    /\ taken' = taken + 1
    /\ running' = running \cup {taken + 1}
    /\ UNCHANGED <<overtaken, script, name, resolution, odeKind, numWorkers, pc, conds, outputs, pos,
                   adpt_matrix, writeLog, pools, maps, ret, mapping, el_n, el_f,
                   survivability, svVars, supVars>>

\* a worker finishes helper(z); its result goes to the job's place in the list
AdaptFinish ==
    /\ Is2D
    /\ \E j \in running :
          /\ outputs' = [m \in DOMAIN outputs \cup {j} |->
                            IF m = j THEN helper(conds[j]) ELSE outputs[m]]
          /\ running' = running \ {j}
          /\ overtaken' = (overtaken \/ \E m \in running : m < j)
    /\ UNCHANGED <<script, name, resolution, odeKind, numWorkers, pc, conds, taken, pos,
                   adpt_matrix, writeLog, pools, maps, ret, mapping, el_n, el_f,
                   survivability, svVars, supVars>>

\* line 183: pool.map returns the complete list
AdaptJoin ==
    /\ Is2D /\ pc = "map"
    /\ MapDone
    /\ pos' = 1
    /\ pc' = "scatter"
    /\ UNCHANGED <<overtaken, script, name, resolution, odeKind, numWorkers, conds, taken, running,
                   outputs, adpt_matrix, writeLog, pools, maps, ret, mapping, el_n, el_f,
                   survivability, svVars, supVars>>

\* lines 187-190: one iteration of 'for i in outputs'
AdaptScatter ==
    /\ Is2D /\ pc = "scatter"
    /\ ~ScatterDone
    /\ pos \in DOMAIN outputs
    /\ LET i == outputs[pos]
       IN  /\ adpt_matrix' = [adpt_matrix EXCEPT ![ScatterCell(i)] = i.status]
           /\ writeLog' = Append(writeLog, ScatterCell(i))
    /\ pos' = pos + 1
    /\ UNCHANGED <<overtaken, script, name, resolution, odeKind, numWorkers, pc, conds, taken, running,
                   outputs, pools, maps, ret, mapping, el_n, el_f,
                   survivability, svVars, supVars>>

\* line 193
AdaptReturn ==
    /\ Is2D /\ pc = "scatter"
    /\ ScatterDone
    /\ ret' = Array(adpt_matrix)
    /\ pc' = "returned"
    /\ UNCHANGED <<overtaken, script, name, resolution, odeKind, numWorkers, conds, taken, running,
                   outputs, pos, adpt_matrix, writeLog, pools, maps, mapping, el_n, el_f,
                   survivability, svVars, supVars>>

-----------------------------------------------------------------------------
(* AB_assess(N, F) and env_combs(resolution) *)

IsFixed == script = "FixedCondSurvival"

N_array(n) == Linspace(0, 50, n)
F_array(n) == Flip(Linspace(0, 50, n), n)

\* lines 100-108: the (N, F, a, b) tuples of the sub-grid, a outer, b inner
AssessConds(Nc, Fc) ==
    LET init_A == Linspace(0, 20, SubRes)
        init_B == Linspace(0, 20, SubRes)
    IN  [j \in 1..(SubRes * SubRes) |->
            <<Nc, Fc, init_A[(j - 1) \div SubRes], init_B[(j - 1) % SubRes]>>]

RECURSIVE SumScores(_, _)
SumScores(outs, n) == IF n = 0 THEN 0 ELSE outs[n].survival + SumScores(outs, n - 1)

\* faulty variant: the scores summed, not averaged
Mean_sum(outs) == <<SumScores(outs, Cardinality(DOMAIN outs)), 1>>

\* line 119: np.mean(outputs), as <<numerator, denominator>>
Mean(outs) == <<SumScores(outs, Cardinality(DOMAIN outs)), Cardinality(DOMAIN outs)>>

\* lines 135-141
EnvInit ==
    /\ IsFixed /\ pc = "start"
    /\ mapping' = Zeros(resolution, <<0, 1>>)
    /\ el_n' = 0
    /\ el_f' = 0
    /\ pc' = "loop"
    /\ UNCHANGED <<overtaken, script, name, resolution, odeKind, numWorkers, conds, taken, running,
                   outputs, pos, adpt_matrix, writeLog, pools, maps, ret,
                   survivability, svVars, supVars>>

\* lines 144-146 and 100-108: the next (n, f) pair enters AB_assess
AssessBuild ==
    /\ IsFixed /\ pc = "loop"
    /\ el_n < resolution
    /\ conds' = AssessConds(N_array(resolution)[el_n], F_array(resolution)[el_f])
    /\ survivability' = <<0, 1>>
    /\ pc' = "guard"
    /\ UNCHANGED <<overtaken, script, name, resolution, odeKind, numWorkers, taken, running,
                   outputs, pos, adpt_matrix, writeLog, pools, maps, ret, mapping,
                   el_n, el_f, svVars, supVars>>

\* line 111 false
AssessSkip ==
    /\ IsFixed /\ pc = "guard" /\ name # "__main__"
    /\ pc' = "assessed"
    /\ UNCHANGED <<overtaken, script, name, resolution, odeKind, numWorkers, conds, taken, running,
                   outputs, pos, adpt_matrix, writeLog, pools, maps, ret, mapping,
                   el_n, el_f, survivability, svVars, supVars>>

\* lines 111-113
AssessPool ==
    /\ IsFixed /\ pc = "guard" /\ name = "__main__"
    /\ pools' = NewPool(pools)
    /\ pc' = "pool"
    /\ UNCHANGED <<overtaken, script, name, resolution, odeKind, numWorkers, conds, taken, running,
                   outputs, pos, adpt_matrix, writeLog, maps, ret, mapping,
                   el_n, el_f, survivability, svVars, supVars>>

\* line 115: pool.map hands conds to the pool
AssessMap ==
    /\ IsFixed /\ pc = "pool"
    /\ maps' = maps + 1
    /\ taken' = 0
    /\ running' = {}
    /\ outputs' = <<>>
    /\ pc' = "map"
    /\ UNCHANGED <<overtaken, script, name, resolution, odeKind, numWorkers, conds, pos,
                   adpt_matrix, writeLog, pools, ret, mapping,
                   el_n, el_f, survivability, svVars, supVars>>

AssessTake ==
    /\ IsFixed /\ pc = "map"
    /\ taken < Len(conds)
    /\ WorkerIdle
    /\ taken' = taken + 1
    /\ running' = running \cup {taken + 1}
    /\ UNCHANGED <<overtaken, script, name, resolution, odeKind, numWorkers, pc, conds, outputs, pos,
                   adpt_matrix, writeLog, pools, maps, ret, mapping,
                   el_n, el_f, survivability, svVars, supVars>>

AssessFinish ==
    /\ IsFixed
    /\ \E j \in running :
          /\ outputs' = [m \in DOMAIN outputs \cup {j} |->
                            IF m = j THEN AB_helper(conds[j]) ELSE outputs[m]]
          /\ running' = running \ {j}
          /\ overtaken' = (overtaken \/ \E m \in running : m < j)
    /\ UNCHANGED <<script, name, resolution, odeKind, numWorkers, pc, conds, taken, pos,
                   adpt_matrix, writeLog, pools, maps, ret, mapping,
                   el_n, el_f, survivability, svVars, supVars>>

\* lines 115-119: pool.map returns and the scores are averaged
AssessMean ==
    /\ IsFixed /\ pc = "map"
    /\ MapDone
    /\ survivability' = Mean(outputs)
    /\ pc' = "assessed"
    /\ UNCHANGED <<overtaken, script, name, resolution, odeKind, numWorkers, conds, taken, running,
                   outputs, pos, adpt_matrix, writeLog, pools, maps, ret, mapping,
                   el_n, el_f, svVars, supVars>>

\* line 146: mapping[el_f, el_n]
EnvCell(n, f) == <<f, n>>

\* lines 121 and 144-146: AB_assess returns, the cell is stored, the loops advance
EnvStore ==
    /\ IsFixed /\ pc = "assessed"
    /\ mapping' = [mapping EXCEPT ![EnvCell(el_n, el_f)] = survivability]
    /\ IF el_f + 1 < resolution
       THEN el_f' = el_f + 1 /\ el_n' = el_n
       ELSE el_f' = 0 /\ el_n' = el_n + 1
    /\ pc' = "loop"
    /\ UNCHANGED <<overtaken, script, name, resolution, odeKind, numWorkers, conds, taken, running,
                   outputs, pos, adpt_matrix, writeLog, pools, maps, ret,
                   survivability, svVars, supVars>>

\* line 149
EnvReturn ==
    /\ IsFixed /\ pc = "loop"
    /\ el_n = resolution
    /\ ret' = Array(mapping)
    /\ pc' = "returned"
    /\ UNCHANGED <<overtaken, script, name, resolution, odeKind, numWorkers, conds, taken, running,
                   outputs, pos, adpt_matrix, writeLog, pools, maps, mapping,
                   el_n, el_f, survivability, svVars, supVars>>

-----------------------------------------------------------------------------
(* Specification of one call of survival *)

InitSurvival ==
    /\ sv_pc = "call"
    /\ argA \in ArgVals
    /\ argB \in ArgVals
    /\ x = <<>>
    /\ dead = Unset
    /\ IdleSupply
    /\ IdleSweep

NextSurvival == SurvivalIntegrate \/ SurvivalClassify

SpecSurvival == InitSurvival /\ [][NextSurvival]_vars

(* Specification of the supply functions *)

InitSupply ==
    /\ argL \in (-MaxMag)..MaxMag
    /\ argS \in (-MaxMag)..MaxMag
    /\ argC \in (-MaxMag)..MaxMag
    /\ retN = 0
    /\ retF = 0
    /\ called = {}
    /\ IdleSurvival
    /\ IdleSweep

NextSupply == CallN \/ CallF

SpecSupply == InitSupply /\ [][NextSupply]_vars

(* Specification of one run of a sweep *)

Names == {"__main__", "__mp_main__"}

InitSweep ==
    /\ script \in {"2D_adaptive_region", "FixedCondSurvival"}
    /\ name \in Names
    /\ resolution \in (IF Is2D THEN 1..MaxRes ELSE 1..MaxEnvRes)
    /\ odeKind \in (IF Is2D THEN Kinds4 ELSE Kinds2)
    /\ numWorkers \in 1..MaxWorkers
    /\ pc = "start"
    /\ conds = <<>> /\ taken = 0 /\ running = {} /\ outputs = <<>> /\ pos = 0
    /\ adpt_matrix = <<>> /\ writeLog = <<>> /\ pools = 0 /\ maps = 0
    /\ overtaken = FALSE
    /\ ret = Pending /\ mapping = <<>> /\ el_n = 0 /\ el_f = 0
    /\ survivability = <<0, 1>>
    /\ IdleSurvival
    /\ IdleSupply

NextSweep ==
    \/ AdaptBuild \/ AdaptSkip \/ AdaptPool \/ AdaptMap \/ AdaptTake
    \/ AdaptFinish \/ AdaptJoin \/ AdaptScatter \/ AdaptReturn
    \/ EnvInit \/ AssessBuild \/ AssessSkip \/ AssessPool \/ AssessMap
    \/ AssessTake \/ AssessFinish \/ AssessMean \/ EnvStore \/ EnvReturn

SpecSweep == InitSweep /\ [][NextSweep]_vars

-----------------------------------------------------------------------------
(* Properties of one call of survival (SpecSurvival) *)

SvDone == sv_pc = "done"
SampleA(t) == x[t][2]
SampleB(t) == x[t][3]
SampleC(t) == FAdd(x[t][2], x[t][3])
Viable(t)  == FGt(SampleA(t), Tenth) /\ FGt(SampleB(t), Tenth) /\ FLe(SampleC(t), Twenty)
Starved(t) == FLe(SampleA(t), Tenth) \/ FLe(SampleB(t), Tenth)

\* C1: a trajectory with A > 0.1, B > 0.1 and A + B <= 20 at every sampled
\* time point is labelled survive (0.0), never 1.0 or -1.0.
C1_SurviveLabel ==
    (SvDone /\ \A t \in DOMAIN x : Viable(t)) => dead = 0

\* a two-row trajectory, viable throughout, touching A + B = 20, was classified
C1_Witness ==
    /\ SvDone /\ Len(x) > 1
    /\ \A t \in DOMAIN x : Viable(t)
    /\ \E t \in DOMAIN x : SampleC(t) = Twenty
    /\ dead = 0

\* C2: a trajectory whose A + B exceeds 20 at some sampled time point is
\* labelled crisis (1.0), also when A or B is <= 0.1 at another time point.
C2_CrisisFirst ==
    (SvDone /\ \E t \in DOMAIN x : FGt(SampleC(t), Twenty)) => dead = 1

\* crisis at one time point, starvation at another one
C2_Witness ==
    /\ SvDone
    /\ \E t, u \in DOMAIN x :
          t # u /\ FGt(SampleC(t), Twenty) /\ Starved(u) /\ ~FGt(SampleC(u), Twenty)
    /\ dead = 1

\* C3 as stated: when A + B never exceeds 20 but A or B is <= 0.1 at some
\* sampled time point, the label is starvation (-1.0).
C3_Original ==
    (/\ SvDone
     /\ \A t \in DOMAIN x : ~FGt(SampleC(t), Twenty)
     /\ \E t \in DOMAIN x : Starved(t)) => dead = -1

\* C3 as amended: when A + B <= 20 holds at every sampled time point (so no
\* sample of A + B is NaN) and A or B is <= 0.1 at some sampled time point,
\* the label is starvation (-1.0).
C3_StarvationLabel ==
    (/\ SvDone
     /\ \A t \in DOMAIN x : FLe(SampleC(t), Twenty)
     /\ \E t \in DOMAIN x : Starved(t)) => dead = -1

\* A is exactly 0.1 at the start, A + B stays within 20, over two rows
C3_Witness ==
    /\ SvDone /\ Len(x) > 1
    /\ \A t \in DOMAIN x : FLe(SampleC(t), Twenty)
    /\ SampleA(1) = Tenth
    /\ dead = -1

HasNaN == \E t \in DOMAIN x : SampleA(t) = NaN \/ SampleB(t) = NaN

\* C10 as stated: a trajectory holding NaN gets none of the labels 0.0, 1.0, -1.0.
C10_Original ==
    (SvDone /\ HasNaN) => dead \notin {0, 1, -1}

\* C10 as amended: a trajectory in which a sample of A or B is NaN is labelled
\* crisis (1.0), because A + B is then NaN and fails 'c <= 20'; and no
\* trajectory at all leaves 'dead' at its initial 1000.0.
C10_NaNIsCrisis ==
    /\ (SvDone /\ HasNaN) => dead = 1
    /\ SvDone => dead # Unset

\* the integrator turned A into NaN after a viable start
C10_Witness ==
    /\ SvDone /\ Len(x) > 1
    /\ Viable(1)
    /\ SampleA(2) = NaN
    /\ dead = 1

-----------------------------------------------------------------------------
(* Properties of the supply functions (SpecSupply) *)

-----------------------------------------------------------------------------
(* Properties of the sweeps (SpecSweep) *)

Returned == pc = "returned"
IsMain   == name = "__main__"
Cells    == (0..(resolution - 1)) \X (0..(resolution - 1))
Writes(cell) == Cardinality({w \in DOMAIN writeLog : writeLog[w] = cell})

\* the i-th of n evenly spaced points of [0, hi], in ticks
GridPoint(i, n, hi) == Fl(IF n = 1 THEN 0 ELSE (i * hi * Unit) \div (n - 1))

\* C4 as stated: after a scan every cell has been written exactly once, every
\* written coordinate lies inside the matrix, and no cell holds the initial
\* (sentinel) value of the matrix.
C4_Original ==
    (Is2D /\ Returned /\ ret.t = "array") =>
        /\ \A w \in DOMAIN writeLog : writeLog[w] \in Cells
        /\ \A cell \in Cells : Writes(cell) = 1
        /\ \A cell \in Cells : ret.v[cell] # 0

\* C4 as amended: after a scan every cell has been written exactly once and
\* every written coordinate lies inside the matrix (a written cell may still
\* hold 0.0, which is both the initial value and the survive label).
C4_WrittenOnce ==
    (Is2D /\ Returned /\ ret.t = "array") =>
        /\ \A w \in DOMAIN writeLog : writeLog[w] \in Cells
        /\ \A cell \in Cells : Writes(cell) = 1
        /\ DOMAIN ret.v = Cells

\* a scan of resolution 3 returned, and a written cell holds the survive label
C4_Witness ==
    /\ Is2D /\ Returned /\ ret.t = "array"
    /\ resolution > 2
    /\ \E cell \in Cells : Writes(cell) = 1 /\ ret.v[cell] = 0

\* C5: the returned matrix holds at [pos_b, pos_a] the label of
\* survival(init_A[pos_a], init_B[pos_b]), init_A ascending over [0, 20] and
\* init_B descending, whatever the order in which the jobs finished.
C5_PerPoint ==
    (Is2D /\ Returned /\ ret.t = "array") =>
        \A pos_a, pos_b \in 0..(resolution - 1) :
            ret.v[<<pos_b, pos_a>>] =
                survival(GridPoint(pos_a, resolution, 20),
                         GridPoint(resolution - 1 - pos_b, resolution, 20))

\* jobs finished out of order, and the returned matrix is not symmetric
C5_Witness ==
    /\ Is2D /\ Returned /\ ret.t = "array"
    /\ resolution > 1
    /\ overtaken
    /\ ret.v[<<0, 1>>] # ret.v[<<1, 0>>]

\* C9: adapt_matrix returns only when every submitted job has been evaluated
\* and its label written; nothing is pending at the return and the matrix is
\* not written after it.
C9_Barrier ==
    /\ [](Is2D /\ ret # Pending =>
            /\ running = {}
            /\ (IsMain => maps = 1)
            /\ (maps > 0 =>
                  /\ DOMAIN outputs = 1..(resolution * resolution)
                  /\ Len(writeLog) = resolution * resolution
                  /\ \A cell \in Cells : Writes(cell) = 1))
    /\ [][Is2D /\ ret # Pending =>
            adpt_matrix' = adpt_matrix /\ writeLog' = writeLog /\ ret' = ret]_vars

\* the scan of a grid of several points returned its matrix
C9_Witness ==
    /\ Is2D /\ ret.t = "array"
    /\ resolution > 1
    /\ Len(writeLog) = resolution * resolution

\* the (N, F) pair of cell [el_f, el_n] outputs a survivor count of
SurvivorCount(i_n, i_f) ==
    Cardinality({p \in (0..(SubRes - 1)) \X (0..(SubRes - 1)) :
        AB_survival(GridPoint(i_n, resolution, 50),
                    GridPoint(resolution - 1 - i_f, resolution, 50),
                    GridPoint(p[1], SubRes, 20),
                    GridPoint(p[2], SubRes, 20)) = 1})

CellIsMean(i_n, i_f) ==
    LET cell == ret.v[<<i_f, i_n>>]
    IN  /\ cell[2] > 0
        /\ cell[1] * (SubRes * SubRes) = SurvivorCount(i_n, i_f) * cell[2]
        /\ 0 <= cell[1] /\ cell[1] <= cell[2]

HasCoordinate(r) == {"posit_A", "posit_B"} \subseteq DOMAIN r

\* C8 as stated: either sweep, run to its return, has created one pool, called
\* pool.map once on the list of all grid tuples, and every result carries its
\* grid coordinate.
C8_Original ==
    (Returned /\ IsMain) =>
        /\ pools = 1 /\ maps = 1
        /\ Len(conds) = resolution * resolution
        /\ \A j \in DOMAIN outputs : HasCoordinate(outputs[j])

\* C8 as amended: adapt_matrix builds all R x R tuples, creates one pool and
\* calls pool.map once, and every result carries its coordinate; env_combs
\* calls AB_assess once per (N, F) cell, each call creating its own pool and
\* calling pool.map on that cell's sub-grid list, and the results carry only
\* the score; in both, no more jobs run at once than cpu_count().
C8_Dispatch ==
    /\ Cardinality(running) <= numWorkers
    /\ maps <= pools /\ pools <= maps + 1
    /\ (Is2D /\ Returned /\ IsMain) =>
          /\ pools = 1 /\ maps = 1
          /\ Len(conds) = resolution * resolution
          /\ DOMAIN outputs = 1..(resolution * resolution)
          /\ \A j \in DOMAIN outputs :
                /\ HasCoordinate(outputs[j])
                /\ <<outputs[j].posit_B, outputs[j].posit_A>> \in Cells
    /\ (IsFixed /\ Returned /\ IsMain) =>
          /\ pools = resolution * resolution
          /\ maps = resolution * resolution
          /\ Len(conds) = SubRes * SubRes
          /\ \A j \in DOMAIN outputs : DOMAIN outputs[j] = {"survival"}

\* env_combs of resolution 2 returned after four pools
C8_Witness ==
    /\ IsFixed /\ Returned /\ IsMain
    /\ resolution > 1
    /\ pools = resolution * resolution

=============================================================================
